---- MODULE Spec2Model ----
(***************************************************************************)
(* A model of the video-story pipeline of src/main.py: extract_keywords,   *)
(* search_pixabay_video and the request handler generate_video_by_story.   *)
(*                                                                         *)
(* Text is a sequence of one-character strings.  Durations are whole       *)
(* numbers of seconds.  The external collaborators (the keyword service,   *)
(* the stock-footage search, the downloads, the video library, the speech  *)
(* synthesiser, the encoder) are inputs: every call either raises or       *)
(* returns, and the handler's reaction is what the actions model.          *)
(***************************************************************************)
EXTENDS Integers, Sequences, FiniteSets, TLC

\* ------------------------------------------------------------- bounds

\* Longest story of a request of the whole-pipeline specification Spec.
MaxStoryLen == 1
\* Longest story text of the keyword-extraction specification SpecKw.
MaxTextLen == 9
\* Longest reply text of the remote keyword service.
MaxReplyLen == 3
\* Most hits in one search response.
MaxHits == 2
\* Longest story text of the specification SpecExtract, which follows step 1
\* over every outcome of the remote call.
MaxShortLen == 4
\* The requests of the specification SpecRenders and the last second of its clock.
MaxRequests == 2
MaxClock == 3

\* ------------------------------------------------------------- text

Whitespace == {" "}
StoryChars == {"a", "B", " "}
ReplyChars == {"a", " ", ","}

Texts(chars, n) == UNION {[1..m -> chars] : m \in 0..n}

IsSpace(c) == c \in Whitespace

\* str.lower() on one character.
LowerChar(c) == IF c = "B" THEN "b" ELSE c

\* str.lower()
Lower(s) == [k \in 1..Len(s) |-> LowerChar(s[k])]

\* str.lstrip() / str.rstrip() / str.strip() with no argument.
RECURSIVE LStrip(_)
LStrip(s) ==
    IF s # <<>> /\ IsSpace(Head(s)) THEN LStrip(Tail(s)) ELSE s

RECURSIVE RStrip(_)
RStrip(s) ==
    IF s # <<>> /\ IsSpace(s[Len(s)]) THEN RStrip(SubSeq(s, 1, Len(s) - 1)) ELSE s

Strip(s) == RStrip(LStrip(s))

\* The least index of s, from 1, whose character satisfies the test; Len(s)+1
\* when there is none.
FirstSep(s, sep) ==
    IF \E k \in 1..Len(s) : s[k] = sep
    THEN CHOOSE k \in 1..Len(s) : s[k] = sep /\ \A m \in 1..(k - 1) : s[m] # sep
    ELSE Len(s) + 1

FirstSpace(s) ==
    IF \E k \in 1..Len(s) : IsSpace(s[k])
    THEN CHOOSE k \in 1..Len(s) : IsSpace(s[k]) /\ \A m \in 1..(k - 1) : ~IsSpace(s[m])
    ELSE Len(s) + 1

\* str.split(sep): the fields between separators; always at least one field.
RECURSIVE SplitOn(_, _)
SplitOn(s, sep) ==
    LET k == FirstSep(s, sep) IN
    IF k > Len(s) THEN <<s>>
    ELSE <<SubSeq(s, 1, k - 1)>> \o SplitOn(SubSeq(s, k + 1, Len(s)), sep)

\* str.split() with no argument: the maximal runs of non-whitespace.
RECURSIVE SplitWs(_)
SplitWs(s) ==
    LET t == LStrip(s)
        k == FirstSpace(t)
    IN  IF t = <<>> THEN <<>>
        ELSE <<SubSeq(t, 1, k - 1)>> \o SplitWs(SubSeq(t, k, Len(t)))

\* ------------------------------------------------- extract_keywords

\* The fallback's filter, `len(w) > 3`.
KeepWordShort(w) == Len(w) >= 3
KeepWordLong(w) == Len(w) > 4
KeepWord(w) == Len(w) > 3

RECURSIVE SelectWords(_)
SelectWords(ws) ==
    IF ws = <<>> THEN <<>>
    ELSE (IF KeepWord(Head(ws)) THEN <<Head(ws)>> ELSE <<>>) \o SelectWords(Tail(ws))

\* The except branch: words = text.lower().split(); [w for w in words if len(w) > 3]
FallbackKeywords(text) == SelectWords(SplitWs(Lower(text)))

\* The try branch: [phrase.strip() for phrase in response.text.strip().split(',')]
RemoteKeywords(reply) ==
    LET fields == SplitOn(Strip(reply), ",")
    IN  [k \in 1..Len(fields) |-> Strip(fields[k])]

\* What the remote call does: raises, answers with no text (response.text is
\* None, so .strip() raises inside the try), or answers with a text.
RemoteOutcomes ==
    {[kind |-> "raise", text |-> <<>>], [kind |-> "notext", text |-> <<>>]}
    \cup {[kind |-> "text", text |-> r] : r \in Texts(ReplyChars, MaxReplyLen)}

extract_keywords(text, remote) ==
    IF remote.kind = "text" THEN RemoteKeywords(remote.text)
    ELSE FallbackKeywords(text)

\* --------------------------------------------- search_pixabay_video

\* One hit of a search response: whether it has a "videos" entry, and for the
\* "medium" and the "small" variant whether it is absent, present with a
\* "url", or present without one.
VariantStates == {"absent", "url", "nourl"}
Hits == [has_videos : BOOLEAN, medium : VariantStates, small : VariantStates]

\* What requests.get / raise_for_status / response.json() give for one search.
SearchResponses ==
    {[kind |-> k, hits |-> <<>>] : k \in {"neterr", "httperr", "notjson", "nonobject"}}
    \cup {[kind |-> "json", hits |-> h] : h \in UNION {[1..m -> Hits] : m \in 0..MaxHits}}

\* No search in progress, and no value of video_url yet.
NoSearch == [kind |-> "idle", hits |-> <<>>]
NotCalled == [kind |-> "unset", hit |-> 0, variant |-> "none"]
NoUrl == [kind |-> "none", hit |-> 0, variant |-> "none"]
Raised == [kind |-> "raise", hit |-> 0, variant |-> "none"]
Url(h, v) == [kind |-> "url", hit |-> h, variant |-> v]

\* A search that prefers a medium variant of any hit to a small one of an
\* earlier hit.
ScanHitsMediumFirst(hits, k) ==
    LET mediums == {j \in k..Len(hits) : hits[j].has_videos /\ hits[j].medium # "absent"}
        smalls == {j \in k..Len(hits) : hits[j].has_videos /\ hits[j].small # "absent"}
        first(set) == CHOOSE j \in set : \A m \in set : j <= m
    IN  IF mediums # {}
        THEN (IF hits[first(mediums)].medium = "url"
              THEN [kind |-> "url", hit |-> first(mediums), variant |-> "medium"]
              ELSE [kind |-> "raise", hit |-> 0, variant |-> "none"])
        ELSE IF smalls # {}
        THEN (IF hits[first(smalls)].small = "url"
              THEN [kind |-> "url", hit |-> first(smalls), variant |-> "small"]
              ELSE [kind |-> "raise", hit |-> 0, variant |-> "none"])
        ELSE [kind |-> "none", hit |-> 0, variant |-> "none"]

\* The for loop over hits, from hit number k on.
RECURSIVE ScanHits(_, _)
ScanHits(hits, k) ==
    IF k > Len(hits) THEN NoUrl
    ELSE LET hit == hits[k] IN
         IF hit.has_videos /\ hit.medium # "absent"
         THEN (IF hit.medium = "url" THEN Url(k, "medium") ELSE Raised)
         ELSE IF hit.has_videos /\ hit.small # "absent"
         THEN (IF hit.small = "url" THEN Url(k, "small") ELSE Raised)
         ELSE ScanHits(hits, k + 1)

\* requests.RequestException and ValueError are caught and give None; an
\* AttributeError (data is no object) or a KeyError (no "url") is not caught.
search_pixabay_video(resp) ==
    CASE resp.kind \in {"neterr", "httperr", "notjson"} -> NoUrl
      [] resp.kind = "nonobject" -> Raised
      [] OTHER -> IF resp.hits = <<>> THEN NoUrl ELSE ScanHits(resp.hits, 1)

\* Everything one search can return or raise, over all responses.
SearchResults == {search_pixabay_video(resp) : resp \in SearchResponses}

\* ------------------------------------------- generate_video_by_story

\* The request's clip_duration values, the durations of the downloaded
\* sources and of the synthesised narration, in seconds.
DefaultClipDuration == 3
ClipDurations == {-1, 0, DefaultClipDuration}
SourceDurations == {2, 5}
NarrationDurations == {6, 15}

ErrKeywords == "Could not extract keywords from the story."
ErrDownload == "Could not download any videos for the keywords."
ErrProcess == "Could not process any video clips."
ErrConcat == "Error concatenating video clips: "
ErrNarration == "Error generating narration audio: "
ErrMux == "Error setting audio to video: "
ErrExport == "Error writing output video file: "
FileResponse == "FileResponse"
\* An exception that leaves the handler: the framework answers 500.
ServerError == "Internal Server Error"
NoResponse == "none"

VARIABLES
    pc,              \* the handler's position
    story,           \* request.story
    clip_duration,   \* request.clip_duration
    response,        \* what the handler returned
    keywords,        \* the KeywordList
    temp_dir,        \* whether tempfile.mkdtemp() has created the scratch directory
    i,               \* the search loop's position in keywords, from 1
    video_paths,     \* the downloaded files, each named by its keyword's position
    p,               \* the load loop's position in video_paths, from 1
    opened,          \* every clip handle VideoFileClip opened: [path, source, closes]
    video_clips,     \* the normalized clips: [handle, duration]
    timelines,       \* every object concatenate_videoclips made: [duration, closes]
    final_video,     \* the variable final_video: [tl, duration, audio]
    narration_audio, \* <<>> or <<[duration, closes]>>
    n_loops,         \* the variable n_loops; 0 while unset
    search_response, \* SpecSearch: the response the search it follows gets
    video_url,       \* SpecSearch: what that call of search_pixabay_video gave
    attempts,        \* one record per pass of the search loop: [entry, search, download]
    calls,           \* how often the remote keyword call and the synthesiser were called
    temp_files,      \* the files in the scratch directory
    now,             \* the clock, in whole seconds
    renders,         \* SpecRenders: step 7 of each of its requests: [pc, timestamp]
    output_dir       \* for each timestamp, how often video_story_<timestamp>.mp4 was written

vars == <<pc, story, clip_duration, response, keywords, temp_dir, i, video_paths,
          p, opened, video_clips, timelines, final_video, narration_audio, n_loops,
          search_response, video_url, attempts, calls, temp_files,
          now, renders, output_dir>>

request == <<story, clip_duration>>
search_call == <<search_response, video_url>>
effects == <<attempts, calls, temp_files>>
renderings == <<now, renders, output_dir>>

Requests == 1..MaxRequests
Clock == 0..MaxClock
media == <<opened, video_clips, timelines, final_video, narration_audio, n_loops>>

NoVideo == [tl |-> 0, duration |-> 0, audio |-> <<>>]

InitWith(stories, durations, responses) ==
    /\ pc = "start"
    /\ story \in stories
    /\ clip_duration \in durations
    /\ response = NoResponse
    /\ keywords = <<>>
    /\ temp_dir = FALSE
    /\ i = 1
    /\ video_paths = <<>>
    /\ p = 1
    /\ opened = <<>>
    /\ video_clips = <<>>
    /\ timelines = <<>>
    /\ final_video = NoVideo
    /\ narration_audio = <<>>
    /\ n_loops = 0
    /\ search_response \in responses
    /\ video_url = NotCalled
    /\ attempts = <<>>
    /\ calls = [generate |-> 0, tts |-> 0]
    /\ temp_files = {}
    /\ now = 0
    /\ renders = [r \in Requests |-> [pc |-> "before", timestamp |-> 0]]
    /\ output_dir = [t \in Clock |-> 0]

Init == InitWith(Texts(StoryChars, MaxStoryLen), ClipDurations, {NoSearch})

\* Longer stories, each with the request's default clip_duration.
InitKw == InitWith(Texts(StoryChars, MaxTextLen), {DefaultClipDuration}, {NoSearch})

\* Stories long enough for one keyword of the fallback.
InitExtract == InitWith(Texts(StoryChars, MaxShortLen), {DefaultClipDuration}, {NoSearch})

\* One call of search_pixabay_video, for each response it can get.
InitSearch == InitWith({<<>>}, {DefaultClipDuration}, SearchResponses)

\* return {"error": ...}
ReturnError(msg) ==
    /\ pc' = "done"
    /\ response' = msg

\* Step 1: keywords = extract_keywords(story); the empty check; mkdtemp.
StepExtractOn(outcomes) ==
    /\ pc = "start"
    /\ \E remote \in outcomes :
         LET kw == extract_keywords(story, remote) IN
         /\ keywords' = kw
         /\ calls' = [calls EXCEPT !.generate = @ + 1]
         /\ IF kw = <<>>
            THEN ReturnError(ErrKeywords) /\ UNCHANGED temp_dir
            ELSE pc' = "search" /\ temp_dir' = TRUE /\ UNCHANGED response
    /\ UNCHANGED <<request, search_call, renderings, i, video_paths, p, media,
                   attempts, temp_files>>

StepExtract == StepExtractOn(RemoteOutcomes)

\* Step 1 when the remote call fails, so that the fallback decides.
StepExtractFallback == StepExtractOn({r \in RemoteOutcomes : r.kind # "text"})

\* `for i, keyword in enumerate(keywords)`: the entry after entry i, whatever
\* the pass over entry i gave.
NextEntryRetry(entry, download) == IF download = "failed" THEN entry ELSE entry + 1
NextEntry(entry, download) == entry + 1

\* video_paths.append(tmp_video_path)
AddPathFront(paths, entry) == <<entry>> \o paths
AddPath(paths, entry) == Append(paths, entry)

\* Step 2, one pass of the loop over keywords: the search, and the download
\* when the search gave a URL.  An exception search_pixabay_video does not
\* catch leaves the handler.
StepSearchDownload ==
    /\ pc = "search"
    /\ i <= Len(keywords)
    /\ \E found \in SearchResults, downloaded \in BOOLEAN :
         CASE found.kind = "raise" ->
                /\ pc' = "crashed"
                /\ response' = ServerError
                /\ attempts' = Append(attempts,
                        [entry |-> i, search |-> "raise", download |-> "none"])
                /\ UNCHANGED <<i, video_paths, temp_files>>
           [] found.kind = "none" ->
                /\ i' = NextEntry(i, "none")
                /\ attempts' = Append(attempts,
                        [entry |-> i, search |-> "none", download |-> "none"])
                /\ UNCHANGED <<pc, response, video_paths, temp_files>>
           [] OTHER ->
                LET download == IF downloaded THEN "ok" ELSE "failed" IN
                /\ i' = NextEntry(i, download)
                /\ attempts' = Append(attempts,
                        [entry |-> i, search |-> "url", download |-> download])
                /\ video_paths' = IF downloaded THEN AddPath(video_paths, i) ELSE video_paths
                /\ temp_files' = IF downloaded THEN temp_files \cup {<<"video", i>>}
                                  ELSE temp_files
                /\ UNCHANGED <<pc, response>>
    /\ UNCHANGED <<request, search_call, renderings, keywords, temp_dir, p, media, calls>>

\* The end of the loop over keywords and the check `if not video_paths`.
StepSearchEnd ==
    /\ pc = "search"
    /\ i > Len(keywords)
    /\ IF video_paths = <<>>
       THEN ReturnError(ErrDownload)
       ELSE pc' = "load" /\ UNCHANGED response
    /\ UNCHANGED <<request, search_call, renderings, effects, keywords, temp_dir,
                   i, video_paths, p, media>>

MaxOf(a, b) == IF a >= b THEN a ELSE b
Min(a, b) == IF a <= b THEN a ELSE b

\* Clip.subclipped(start_time, end_time) on a clip of the given duration: the
\* library refuses a start at or after the end of the clip and an end after
\* it; otherwise the new clip lasts end_time - start_time. A negative
\* end_time counts from the end of the clip: it stands for duration + end_time.
Subclipped(duration, start_time, end_time) ==
    LET end == IF end_time < 0 THEN duration + end_time ELSE end_time IN
    IF start_time >= duration \/ end > duration
    THEN [ok |-> FALSE, duration |-> 0]
    ELSE [ok |-> TRUE, duration |-> end - start_time]

\* Step 3, one pass of the loop over video_paths: VideoFileClip(path) raises,
\* or opens a handle on a source of some duration, which is then cut.
StepLoadClip ==
    /\ pc = "load"
    /\ p <= Len(video_paths)
    /\ p' = p + 1
    /\ \/ UNCHANGED <<opened, video_clips>>
       \/ \E source \in SourceDurations :
            LET cut == Subclipped(source, 0, Min(clip_duration, source))
                handle == Len(opened) + 1
            IN  /\ opened' = Append(opened,
                        [path |-> video_paths[p], source |-> source, closes |-> 0])
                /\ video_clips' =
                     IF cut.ok
                     THEN Append(video_clips, [handle |-> handle, duration |-> cut.duration])
                     ELSE video_clips
    /\ UNCHANGED <<pc, request, search_call, renderings, effects, response, keywords,
                   temp_dir, i, video_paths, timelines, final_video, narration_audio,
                   n_loops>>

\* `if not video_clips`
SomeClipMissing(clips) == Len(clips) < Len(video_paths)
NoClips(clips) == clips = <<>>

\* The end of the loop over video_paths and the check `if not video_clips`.
StepLoadEnd ==
    /\ pc = "load"
    /\ p > Len(video_paths)
    /\ IF NoClips(video_clips)
       THEN ReturnError(ErrProcess)
       ELSE pc' = "concat" /\ UNCHANGED response
    /\ UNCHANGED <<request, search_call, renderings, effects, keywords, temp_dir,
                   i, video_paths, p, media>>

RECURSIVE TotalDuration(_)
TotalDuration(clips) ==
    IF clips = <<>> THEN 0 ELSE Head(clips).duration + TotalDuration(Tail(clips))

\* Step 4: concatenate_videoclips(video_clips, method="compose") raises, or
\* makes the timeline, as long as its clips together.
StepConcat ==
    /\ pc = "concat"
    /\ \/ /\ ReturnError(ErrConcat)
          /\ UNCHANGED <<timelines, final_video>>
       \/ /\ timelines' = Append(timelines,
                 [duration |-> TotalDuration(video_clips), closes |-> 0])
          /\ final_video' = [tl |-> Len(timelines) + 1,
                             duration |-> TotalDuration(video_clips), audio |-> <<>>]
          /\ pc' = "tts"
          /\ UNCHANGED response
    /\ UNCHANGED <<request, search_call, renderings, effects, keywords, temp_dir,
                   i, video_paths, p, opened, video_clips, narration_audio, n_loops>>

\* Step 5: gTTS / tts.save / AudioFileClip raise, or give the narration track.
StepNarration ==
    /\ pc = "tts"
    /\ calls' = [calls EXCEPT !.tts = @ + 1]
    /\ \/ \* gTTS or tts.save raises: no narration file
          /\ ReturnError(ErrNarration)
          /\ UNCHANGED <<narration_audio, temp_files>>
       \/ \* AudioFileClip raises on the saved file
          /\ ReturnError(ErrNarration)
          /\ temp_files' = temp_files \cup {<<"narration", 0>>}
          /\ UNCHANGED narration_audio
       \/ \E duration \in NarrationDurations :
            /\ narration_audio' = <<[duration |-> duration, closes |-> 0]>>
            /\ temp_files' = temp_files \cup {<<"narration", 0>>}
            /\ pc' = "mux"
            /\ UNCHANGED response
    /\ UNCHANGED <<request, search_call, renderings, attempts, keywords, temp_dir,
                   i, video_paths, p, opened, video_clips, timelines, final_video,
                   n_loops>>

\* `if narration_audio.duration > final_video.duration`
NeedsLoopNever(narration, video) == FALSE
NeedsLoopOrEqual(narration, video) == narration >= video
NeedsLoop(narration, video) == narration > video

\* `int(narration_audio.duration / final_video.duration) + 1`, for a video
\* duration that is not 0.
LoopCountNoExtra(narration, video) == narration \div video
LoopCount(narration, video) == (narration \div video) + 1

\* Step 6: the loop and trim when the narration is longer, then with_audio.
\* The division raises for a video of duration 0, and each library call may
\* raise: the second concatenation, the trim, the binding of the audio.
StepMux ==
    /\ pc = "mux"
    /\ LET narration == narration_audio[1].duration
           video == final_video.duration
           loop == NeedsLoop(narration, video)
           count == LoopCount(narration, video)
           trim == Subclipped(count * video, 0, narration)
       IN
       \/ \* the division raises
          /\ loop /\ video = 0
          /\ ReturnError(ErrMux)
          /\ UNCHANGED <<timelines, final_video, n_loops>>
       \/ \* the concatenation of the repeats raises
          /\ loop /\ video # 0
          /\ n_loops' = count
          /\ ReturnError(ErrMux)
          /\ UNCHANGED <<timelines, final_video>>
       \/ \* the trim raises: the looped timeline exists, final_video is not rebound
          /\ loop /\ video # 0
          /\ n_loops' = count
          /\ timelines' = Append(timelines, [duration |-> count * video, closes |-> 0])
          /\ ReturnError(ErrMux)
          /\ UNCHANGED final_video
       \/ \* looped and trimmed; with_audio raises or binds the narration
          /\ loop /\ video # 0 /\ trim.ok
          /\ n_loops' = count
          /\ timelines' = Append(timelines, [duration |-> count * video, closes |-> 0])
          /\ \E bound \in BOOLEAN :
               IF bound
               THEN /\ final_video' = [tl |-> Len(timelines) + 1,
                                       duration |-> trim.duration,
                                       audio |-> <<narration>>]
                    /\ pc' = "export"
                    /\ UNCHANGED response
               ELSE /\ final_video' = [tl |-> Len(timelines) + 1,
                                       duration |-> trim.duration, audio |-> <<>>]
                    /\ ReturnError(ErrMux)
       \/ \* no loop; with_audio raises or binds the narration
          /\ ~loop
          /\ UNCHANGED <<timelines, n_loops>>
          /\ \E bound \in BOOLEAN :
               IF bound
               THEN /\ final_video' = [final_video EXCEPT !.audio = <<narration>>]
                    /\ pc' = "export"
                    /\ UNCHANGED response
               ELSE /\ ReturnError(ErrMux)
                    /\ UNCHANGED final_video
    /\ UNCHANGED <<request, search_call, renderings, effects, keywords, temp_dir,
                   i, video_paths, p, opened, video_clips, narration_audio>>

\* clip.close() for every clip of video_clips
RECURSIVE CloseClips(_, _)
CloseClips(handles, clips) ==
    IF clips = <<>> THEN handles
    ELSE CloseClips([handles EXCEPT ![Head(clips).handle].closes = @ + 1], Tail(clips))

\* datetime.datetime.now().strftime("%Y%m%d%H%M%S"): the clock to the second.
Timestamp(clock) == clock

\* write_videofile(output_video_path, ...) for the path of a timestamp: the
\* file is created, or written over.
WriteVideoFile(dir, timestamp) == [dir EXCEPT ![timestamp] = @ + 1]

\* Step 7: write_videofile raises or writes the file; the finally block closes
\* the clips of video_clips, the object final_video names, and the narration.
StepExport ==
    /\ pc = "export"
    /\ pc' = "done"
    /\ \E written \in BOOLEAN :
         /\ response' = IF written THEN FileResponse ELSE ErrExport
         /\ output_dir' = IF written THEN WriteVideoFile(output_dir, Timestamp(now))
                          ELSE output_dir
    /\ opened' = CloseClips(opened, video_clips)
    /\ timelines' = [timelines EXCEPT ![final_video.tl].closes = @ + 1]
    /\ narration_audio' = [narration_audio EXCEPT ![1].closes = @ + 1]
    /\ UNCHANGED <<request, search_call, effects, now, renders, keywords, temp_dir,
                   i, video_paths, p, video_clips, final_video, n_loops>>

Next ==
    \/ StepExtract
    \/ StepSearchDownload
    \/ StepSearchEnd
    \/ StepLoadClip
    \/ StepLoadEnd
    \/ StepConcat
    \/ StepNarration
    \/ StepMux
    \/ StepExport

Spec == Init /\ [][Next]_vars

\* The first step alone with a failing remote call, over longer stories.
NextKw == StepExtractFallback

SpecKw == InitKw /\ [][NextKw]_vars

\* search_pixabay_video(keyword, ...) on the response of InitSearch.
CallSearch ==
    /\ search_response # NoSearch
    /\ video_url = NotCalled
    /\ video_url' = search_pixabay_video(search_response)
    /\ UNCHANGED <<pc, request, renderings, effects, response, keywords, temp_dir,
                   i, video_paths, p, media, search_response>>

NextSearch == CallSearch

SpecSearch == InitSearch /\ [][NextSearch]_vars

\* The first step alone, whatever the remote call does.
NextExtract == StepExtract

SpecExtract == InitExtract /\ [][NextExtract]_vars

\* ------------------------------------------------------- properties

Done == pc = "done"

\* The durations the claims speak of: T, the timeline the first concatenation
\* made, and N, the narration track.
TimelineDuration == timelines[1].duration
NarrationDuration == narration_audio[1].duration

\* Step 6 bound the narration to final_video: the handler is at or past export.
Muxed == pc \in {"export", "done"} /\ final_video.audio # <<>>

Rendered == Done /\ response = FileResponse

StepErrors == {ErrConcat, ErrNarration, ErrMux, ErrExport}

\* C1: when a step from concatenation through export fails, every clip
\* handle, timeline and narration handle opened before the failure has been
\* released by the time the error response is returned.
C1_ReleasedBeforeError ==
    (Done /\ response \in StepErrors) =>
        /\ \A h \in 1..Len(opened) : opened[h].closes >= 1
        /\ \A t \in 1..Len(timelines) : timelines[t].closes >= 1
        /\ \A a \in 1..Len(narration_audio) : narration_audio[a].closes >= 1

\* C2: after any completed run every acquired handle (each opened clip, each
\* timeline made by a concatenation, the narration track) has been released
\* exactly once.
C2_ReleasedExactlyOnce ==
    Done =>
        /\ \A h \in 1..Len(opened) : opened[h].closes = 1
        /\ \A t \in 1..Len(timelines) : timelines[t].closes = 1
        /\ \A a \in 1..Len(narration_audio) : narration_audio[a].closes = 1

\* C3: when the narration N is strictly longer than the timeline T > 0 and
\* step 6 succeeds, the timeline was repeated floor(N/T) + 1 times (the one
\* count k with (k-1)*T <= N < k*T), the looped timeline lasts k*T, and the
\* final video lasts exactly N; for T = 9, N = 15 that is 2 repeats, 18
\* seconds trimmed to 15.
C3_LoopCountAndTrim ==
    (Muxed /\ NarrationDuration > TimelineDuration /\ TimelineDuration > 0) =>
        /\ (n_loops - 1) * TimelineDuration <= NarrationDuration
        /\ NarrationDuration < n_loops * TimelineDuration
        /\ Len(timelines) = 2
        /\ timelines[2].duration = n_loops * TimelineDuration
        /\ final_video.tl = 2
        /\ final_video.duration = NarrationDuration
        /\ (TimelineDuration = 9 /\ NarrationDuration = 15) =>
               (n_loops = 2 /\ timelines[2].duration = 18 /\ final_video.duration = 15)

C3_Witness ==
    /\ Rendered
    /\ TimelineDuration = 9
    /\ NarrationDuration = 15
    /\ n_loops = 2
    /\ final_video.duration = 15

\* C4: when the timeline is at least as long as the narration and step 6
\* succeeds, the timeline is neither looped nor trimmed: the final video is
\* the first timeline at its full duration, with the narration as its audio.
C4_NoLoopNoTrim ==
    (Muxed /\ TimelineDuration >= NarrationDuration) =>
        /\ n_loops = 0
        /\ Len(timelines) = 1
        /\ final_video.tl = 1
        /\ final_video.duration = TimelineDuration
        /\ final_video.audio = <<NarrationDuration>>

C4_Witness ==
    /\ Rendered
    /\ TimelineDuration > NarrationDuration
    /\ final_video.duration = TimelineDuration
    /\ final_video.audio = <<NarrationDuration>>

\* Scenario A: three keywords, each found and downloaded, each source 5 s
\* long, clip_duration 3, a narration of 6 s, and a rendered video.
ScenarioA ==
    /\ Rendered
    /\ Len(keywords) = 3
    /\ video_paths = <<1, 2, 3>>
    /\ Len(video_clips) = 3
    /\ \A h \in 1..Len(opened) : opened[h].source = 5
    /\ clip_duration = 3
    /\ NarrationDuration = 6

\* C5, as stated: in scenario A the timeline is 9 s, nothing is looped, the
\* audio lasts 6 s and the final video is trimmed from 9 s to 6 s.
C5_ScenarioTrimmedToSix ==
    ScenarioA =>
        /\ TimelineDuration = 9
        /\ n_loops = 0
        /\ final_video.audio = <<6>>
        /\ final_video.duration = 6

\* C5, amended: in scenario A the timeline is 9 s, nothing is looped, the
\* audio lasts 6 s and the final video keeps its 9 s: it is not trimmed.
C5_ScenarioKeepsNine ==
    ScenarioA =>
        /\ TimelineDuration = 9
        /\ n_loops = 0
        /\ final_video.audio = <<6>>
        /\ final_video.duration = 9

C5_Witness == ScenarioA /\ final_video.tl = 1

\* C6: on every successful render the audio of the final video is the
\* narration track, with exactly its duration, and the final video is never
\* shorter than the narration.
C6_AudioIsNarration ==
    Rendered =>
        /\ final_video.audio = <<NarrationDuration>>
        /\ final_video.duration >= NarrationDuration

C6_Witness ==
    /\ Rendered
    /\ TimelineDuration < NarrationDuration
    /\ final_video.duration = NarrationDuration

\* C7: a request whose concatenated timeline has duration 0 (every clip
\* degenerate) ends with the concatenation error, and with no other outcome.
C7_ZeroTimelineIsConcatError ==
    (Done /\ video_clips # <<>> /\ TotalDuration(video_clips) = 0) =>
        response = ErrConcat

\* The maximal runs of non-whitespace of a text, as pairs of positions, and
\* those longer than 3 characters.
TokenSpans(s) ==
    {sp \in (1..Len(s)) \X (1..Len(s)) :
        /\ sp[1] <= sp[2]
        /\ \A k \in sp[1]..sp[2] : ~IsSpace(s[k])
        /\ (sp[1] = 1 \/ IsSpace(s[sp[1] - 1]))
        /\ (sp[2] = Len(s) \/ IsSpace(s[sp[2] + 1]))}

LongSpans(s) == {sp \in TokenSpans(s) : sp[2] - sp[1] + 1 > 3}

\* list is, in order and with repeats, the tokens of s longer than 3.
IsLongTokenList(list, s) ==
    /\ Len(list) = Cardinality(LongSpans(s))
    /\ \A sp \in LongSpans(s) :
         list[Cardinality({q \in LongSpans(s) : q[1] < sp[1]}) + 1]
             = SubSeq(s, sp[1], sp[2])

\* C8, as stated: when the remote call fails, the keywords are exactly the
\* whitespace-delimited tokens of the input text longer than 3 characters,
\* in order, with repeats and without a cap.
C8_FallbackTokensOfText ==
    pc # "start" => IsLongTokenList(keywords, story)

\* C8, amended: when the remote call fails, the keywords are exactly the
\* whitespace-delimited tokens of the lowercased input text longer than 3
\* characters, in order, with repeats and without a cap; no keyword has 3
\* characters or fewer.
C8_FallbackTokensOfLowercasedText ==
    pc # "start" =>
        /\ IsLongTokenList(keywords, [k \in 1..Len(story) |-> LowerChar(story[k])])
        /\ \A k \in 1..Len(keywords) : Len(keywords[k]) > 3

C8_Witness ==
    /\ pc = "search"
    /\ Len(keywords) = 2
    /\ keywords[1] = keywords[2]
    /\ \E k \in 1..Len(story) : story[k] = "B"

\* C9: every phrase of the KeywordList, on the remote path and on the
\* fallback path, is non-empty and has no whitespace at either end.
C9_PhrasesTrimmedNonEmpty ==
    pc # "start" =>
        \A k \in 1..Len(keywords) :
            /\ keywords[k] # <<>>
            /\ ~IsSpace(keywords[k][1])
            /\ ~IsSpace(keywords[k][Len(keywords[k])])

\* C10: a request with an empty story ends with the keyword-extraction error,
\* whatever the remote call does; it never goes on to search or download.
C10_EmptyStoryIsKeywordError ==
    (story = <<>> /\ pc # "start") => (Done /\ response = ErrKeywords)

\* C11, as stated: for every non-empty story extract_keywords returns a
\* non-empty KeywordList, whether the remote call replies or fails.
C11_NonEmptyStoryGivesKeywords ==
    (pc # "start" /\ story # <<>>) => keywords # <<>>

\* C11, amended: for every story with at least one whitespace-delimited token
\* longer than 3 characters extract_keywords returns a non-empty KeywordList,
\* whether the remote call replies or fails and only the fallback runs.
C11_LongTokenGivesKeywords ==
    (pc # "start" /\ LongSpans(story) # {}) => keywords # <<>>

\* The fallback ran on a story with a long token: only lowercasing gives "b".
C11_Witness ==
    /\ pc = "search"
    /\ LongSpans(story) # {}
    /\ keywords = <<<<"a", "a", "a", "b">>>>

\* C12: a search that fails (network error, HTTP error) or gets a malformed
\* response of any shape (not JSON, JSON that is no object, a variant with no
\* url) returns none: it never raises, so the request does not abort.
C12_FailedSearchGivesNone ==
    video_url # NotCalled =>
        /\ video_url.kind # "raise"
        /\ search_response.kind \in {"neterr", "httperr", "notjson", "nonobject"}
               => video_url = NoUrl

\* C12 in the handler: no search ever makes the request end with an unhandled
\* exception.
C12_RequestNeverAborts == pc # "crashed"

\* The hits that expose a medium variant, a small variant, either.
MediumHits(hits) == {k \in 1..Len(hits) : hits[k].has_videos /\ hits[k].medium # "absent"}
SmallHits(hits) == {k \in 1..Len(hits) : hits[k].has_videos /\ hits[k].small # "absent"}
FirstOf(set) == CHOOSE k \in set : \A m \in set : k <= m
WellFormed(hits) == \A k \in 1..Len(hits) : hits[k].medium # "nourl" /\ hits[k].small # "nourl"

\* C18, as stated: the search returns the medium URL of the first hit that
\* exposes a medium variant; only when no hit exposes medium, the small URL of
\* the first hit that exposes small; none when no hit exposes either.  (Stated
\* for responses in which every variant has a url.)
C18_FirstMediumOfAllHits ==
    (video_url # NotCalled /\ search_response.kind = "json"
        /\ WellFormed(search_response.hits)) =>
        LET hits == search_response.hits IN
        video_url = IF MediumHits(hits) # {} THEN Url(FirstOf(MediumHits(hits)), "medium")
                    ELSE IF SmallHits(hits) # {} THEN Url(FirstOf(SmallHits(hits)), "small")
                    ELSE NoUrl

\* C18, amended: the search looks at the first hit that exposes a medium or a
\* small variant and at no later hit: it returns that hit's medium URL when
\* the hit exposes medium, else its small URL (and raises when that variant
\* has no url); it returns none when no hit exposes either variant.
C18_FirstExposingHit ==
    (video_url # NotCalled /\ search_response.kind = "json") =>
        LET hits == search_response.hits
            exposing == MediumHits(hits) \cup SmallHits(hits)
            hit == FirstOf(exposing)
        IN  IF exposing = {} THEN video_url = NoUrl
            ELSE IF hit \in MediumHits(hits)
            THEN video_url = IF hits[hit].medium = "url" THEN Url(hit, "medium") ELSE Raised
            ELSE video_url = IF hits[hit].small = "url" THEN Url(hit, "small") ELSE Raised

\* Hits [small only, medium]: the small URL of the first hit is returned.
C18_Witness ==
    /\ search_response.kind = "json"
    /\ Len(search_response.hits) = 2
    /\ search_response.hits[1] = [has_videos |-> TRUE, medium |-> "absent", small |-> "url"]
    /\ search_response.hits[2] = [has_videos |-> TRUE, medium |-> "url", small |-> "absent"]
    /\ video_url = Url(1, "small")

\* ---------------------------------------------------------------------------
\* Step 7 of several requests to /generate/video, and the clock

InitRenders == InitWith({<<>>}, {DefaultClipDuration}, {NoSearch})

\* A second passes.
Tick ==
    /\ now < MaxClock
    /\ now' = now + 1
    /\ UNCHANGED <<pc, request, search_call, effects, renders, output_dir, response,
                   keywords, temp_dir, i, video_paths, p, media>>

\* Request r reaches step 7 and names its output file after the clock.
StartRender(r) ==
    /\ renders[r].pc = "before"
    /\ renders' = [renders EXCEPT ![r] = [pc |-> "named", timestamp |-> Timestamp(now)]]
    /\ UNCHANGED <<pc, request, search_call, effects, now, output_dir, response,
                   keywords, temp_dir, i, video_paths, p, media>>

\* Request r writes its video to the path it named.
WriteVideo(r) ==
    /\ renders[r].pc = "named"
    /\ output_dir' = WriteVideoFile(output_dir, renders[r].timestamp)
    /\ renders' = [renders EXCEPT ![r].pc = "written"]
    /\ UNCHANGED <<pc, request, search_call, effects, now, response,
                   keywords, temp_dir, i, video_paths, p, media>>

NextRenders ==
    \/ Tick
    \/ \E r \in Requests : StartRender(r)
    \/ \E r \in Requests : WriteVideo(r)

SpecRenders == InitRenders /\ [][NextRenders]_vars

\* ---------------------------------------------------------------------------
\* The search loop, the scratch files, the output directory, the decode loop

\* The passes of the search loop whose download succeeded.
Successes == {k \in 1..Len(attempts) : attempts[k].download = "ok"}

\* The entries of a sequence of numbers, as a set.
Range(seq) == {seq[k] : k \in 1..Len(seq)}

\* The request is past its search loop.
SearchLoopFinished == pc \notin {"start", "search", "crashed"} /\ keywords # <<>>

\* C13: the downloaded paths are the entries of the keyword list whose search
\* gave a URL and whose download succeeded, one path per such entry and in
\* the order of the entries; an entry whose search gave no URL or whose
\* download failed has no path.
C13_PathsAreSuccessesInOrder ==
    /\ \A x \in 1..Len(video_paths), y \in 1..Len(video_paths) :
         x < y => video_paths[x] < video_paths[y]
    /\ Range(video_paths) \subseteq 1..Len(keywords)
    /\ Range(video_paths) = {attempts[k].entry : k \in Successes}
    /\ Len(video_paths) = Cardinality(Successes)

\* Three entries, the second without a clip: the paths are those of the first
\* and the third, in that order.
C13_Witness ==
    /\ Len(keywords) = 3
    /\ Len(attempts) = 3
    /\ attempts[2].download = "failed"
    /\ video_paths = <<1, 3>>

\* C14: a request with a non-empty keyword list of which no entry was
\* downloaded answers with the download error, and decodes, synthesises and
\* exports nothing.
C14_NoDownloadIsDownloadError ==
    (pc \in {"done", "crashed"} /\ keywords # <<>> /\ Successes = {}) =>
        /\ response = ErrDownload
        /\ opened = <<>>
        /\ calls.tts = 0
        /\ \A t \in Clock : output_dir[t] = 0

\* C15: no output path is written twice, and no two requests name the same
\* output path.
C15_OutputPathsDistinct ==
    /\ \A t \in Clock : output_dir[t] <= 1
    /\ \A r1 \in Requests, r2 \in Requests :
         (r1 # r2 /\ renders[r1].pc # "before" /\ renders[r2].pc # "before") =>
             renders[r1].timestamp # renders[r2].timestamp

\* C16: when the rendered video is returned, the scratch directory and the
\* files in it are gone.
C16_RenderedLeavesNoTempFiles ==
    Rendered => (temp_dir = FALSE /\ temp_files = {})

\* C17: every clip of the normalised list lasts min(clip_duration, duration
\* of its source): never longer than clip_duration, and the whole source when
\* the source is shorter.
C17_ClipIsMinOfRequestedAndSource ==
    \A k \in 1..Len(video_clips) :
        LET source == opened[video_clips[k].handle].source
            duration == video_clips[k].duration
        IN  /\ duration <= clip_duration
            /\ duration <= source
            /\ duration = clip_duration \/ duration = source
            /\ source < clip_duration => duration = source

\* The downloaded path a clip was decoded from.
PathOf(clip) == opened[clip.handle].path

\* C19: each decoded file gives one clip, the clips keep the order of their
\* downloaded paths, and a request with downloaded paths ends with the
\* processing error exactly when no clip was decoded.
C19_DecodeFailureDropsOneClip ==
    /\ \A x \in 1..Len(video_clips), y \in 1..Len(video_clips) :
         x < y => PathOf(video_clips[x]) < PathOf(video_clips[y])
    /\ \A k \in 1..Len(video_clips) : PathOf(video_clips[k]) \in Range(video_paths)
    /\ \A h \in 1..Len(opened) : \E k \in 1..Len(video_clips) : video_clips[k].handle = h
    /\ pc = "load" => Len(opened) <= p - 1
    /\ (Done /\ video_paths # <<>>) => (response = ErrProcess <=> video_clips = <<>>)

\* Three downloaded files, the second not decodable: the request goes on with
\* the first and the third and returns the video.
C19_Witness ==
    /\ Rendered
    /\ video_paths = <<1, 2, 3>>
    /\ Len(video_clips) = 2
    /\ PathOf(video_clips[1]) = 1
    /\ PathOf(video_clips[2]) = 3

====
